---- MODULE Spec2Model ----
(***************************************************************************)
(* BigQueryDatasource (src/src/datasource.ts): the datasource instance,    *)
(* its operations and the promise continuations they leave behind.         *)
(*                                                                         *)
(* JavaScript text is a sequence of atoms (TLA+ strings): the characters   *)
(* of a variable value are one atom each, the fixed parts of a SQL text    *)
(* are one atom each.  A JavaScript value is a tagged record.              *)
(***************************************************************************)
EXTENDS Integers, Sequences, FiniteSets, TLC

\* ------------------------------------------------------------------ bounds
\* longest string value of a variable
MaxStrLen == 2
\* longest string element of a list value
MaxElemLen == 1
\* longest list value of a variable
MaxListLen == 3
\* most targets in options.targets
MaxTargets == 2
\* largest maxRetries handed to doRequest/doQueryRequest by a direct caller
MaxRetriesArg == 1

\* The default value of the maxRetries parameter of doRequest/doQueryRequest.
DefaultMaxRetries == 1

\* ------------------------------------------------------------ JS values
StrV(s) == [t |-> "string", s |-> s, n |-> 0, v |-> <<>>]
NumV(n) == [t |-> "number", s |-> <<>>, n |-> n, v |-> <<>>]
ListV(v) == [t |-> "list", s |-> <<>>, n |-> 0, v |-> v]
NullV == [t |-> "null", s |-> <<>>, n |-> 0, v |-> <<>>]

Alphabet == {"a", "'"}
NumSet == {-12, 1, 2, 3}

RECURSIVE SeqsUpTo(_, _)
SeqsUpTo(S, n) ==
    IF n = 0 THEN {<<>>}
    ELSE LET shorter == SeqsUpTo(S, n - 1)
         IN shorter \cup {Append(q, x) : q \in {r \in shorter : Len(r) = n - 1}, x \in S}

Strings == {StrV(s) : s \in SeqsUpTo(Alphabet, MaxStrLen)}
Numbers == {NumV(n) : n \in NumSet}
Scalars == Strings \cup Numbers
Elements == {StrV(s) : s \in SeqsUpTo(Alphabet, MaxElemLen)} \cup Numbers \cup {NullV}
Lists == {ListV(v) : v \in SeqsUpTo(Elements, MaxListLen)}
Values == Scalars \cup Lists
Variables == [multi : BOOLEAN, includeAll : BOOLEAN]

\* String(n) of a JavaScript integer: its decimal digits, '-' first when negative.
DigitChar(d) == <<"0", "1", "2", "3", "4", "5", "6", "7", "8", "9">>[d + 1]

RECURSIVE Digits(_)
Digits(n) == IF n < 10 THEN <<DigitChar(n)>> ELSE Digits(n \div 10) \o <<DigitChar(n % 10)>>

NumberToString(n) == IF n < 0 THEN <<"-">> \o Digits(-n) ELSE Digits(n)

\* String.replace(/'/g, "''")
RECURSIVE EscapeQuotes(_)
EscapeQuotes(s) ==
    IF s = <<>> THEN <<>>
    ELSE (IF Head(s) = "'" THEN <<"'", "'">> ELSE <<Head(s)>>) \o EscapeQuotes(Tail(s))

\* BigQueryQuery.quoteLiteral (bigquery_query.ts, not under src/): spec 4.1.
quoteLiteral(value) ==
    CASE value.t = "string" -> <<"'">> \o EscapeQuotes(value.s) \o <<"'">>
      [] value.t = "number" -> NumberToString(value.n)
      [] OTHER -> <<"N", "U", "L", "L">>

\* Array.prototype.join(sep) of an array of strings
RECURSIVE Join(_, _)
Join(parts, sep) ==
    IF parts = <<>> THEN <<>>
    ELSE IF Len(parts) = 1 THEN parts[1]
    ELSE parts[1] \o sep \o Join(Tail(parts), sep)

\* _.map(value, v => quoteLiteral(v)): a non-collection maps to [].
MapQuote(value) ==
    IF value.t = "list" THEN [i \in 1..Len(value.v) |-> quoteLiteral(value.v[i])] ELSE <<>>

interpolateVariable_unquoted(value, variable) ==
    IF value.t = "string" THEN value
    ELSE IF value.t = "number" THEN value
    ELSE StrV(Join(MapQuote(value), <<",">>))

interpolateVariable_reversed(value, variable) ==
    IF value.t = "string"
    THEN (IF variable.multi \/ variable.includeAll THEN StrV(quoteLiteral(value)) ELSE value)
    ELSE IF value.t = "number" THEN value
    ELSE LET q == MapQuote(value)
         IN StrV(Join([i \in 1..Len(q) |-> q[Len(q) + 1 - i]], <<",">>))

interpolateVariable(value, variable) ==
    IF value.t = "string"
    THEN (IF variable.multi \/ variable.includeAll THEN StrV(quoteLiteral(value)) ELSE value)
    ELSE IF value.t = "number" THEN value
    ELSE StrV(Join(MapQuote(value), <<",">>))

\* String(x) of what interpolateVariable returned, as templateSrv splices it in.
ToText(x) == IF x.t = "number" THEN NumberToString(x.n) ELSE x.s

\* ------------------------------------------------------------- SQL text
SqlMacro == <<"SELECT c FROM t WHERE ", "$__timeFilter(ts)", " AND c IN (", "${v}", ")">>
SqlBad == <<"SELECT c FROM t WHERE ", "$__timeFilter(", " AND c IN (", "${v}", ")">>
SqlSet == {SqlMacro, SqlBad}

RefIds == <<"A", "B", "C", "D">>
Formats == <<"time_series", "table", "time_series", "table">>

\* options.targets: the i-th target of a panel has the i-th refId.
TargetLists ==
    UNION {[1..n -> BOOLEAN \X SqlSet] : n \in 0..MaxTargets}

MakeTargets(choice) ==
    [i \in 1..Len(choice) |->
        [refId |-> RefIds[i], rawSql |-> choice[i][2], format |-> Formats[i], hide |-> choice[i][1]]]

\* options of a query cycle: the dashboard's time range and panel settings.
Options == [range |-> [from |-> "1000", to |-> "2000"], intervalMs |-> 60000, maxDataPoints |-> 100]

\* The variable v the host templating service holds (absent: no such variable).
TemplateVars ==
    { [present |-> FALSE, value |-> NullV, variable |-> [multi |-> FALSE, includeAll |-> FALSE]],
      [present |-> TRUE, value |-> ListV(<<NumV(1), StrV(<<"a">>)>>), variable |-> [multi |-> TRUE, includeAll |-> FALSE]] }

\* ------------------------------------------------- collaborators' functions
\* templateSrv.replace(text, scopedVars, format): every ${v} token becomes the
\* text of format(value, variable); a token of an unknown variable stays.
RECURSIVE Replace(_, _)
Replace(sql, tv) ==
    IF sql = <<>> THEN <<>>
    ELSE (IF Head(sql) = "${v}" /\ tv.present
          THEN ToText(interpolateVariable(tv.value, tv.variable))
          ELSE <<Head(sql)>>) \o Replace(Tail(sql), tv)

\* BigQueryQuery.render(interpolate) (bigquery_query.ts, not under src/): the
\* target's SQL with its variables interpolated (spec 4.2).
render(target, tv) == Replace(target.rawSql, tv)

\* BigQueryQuery.expend_macros(options) (bigquery_query.ts, not under src/):
\* spec 4.3.  A macro call that does not parse is a MacroSyntaxError.
MacroMalformed(sql) == \E i \in 1..Len(sql) : sql[i] = "$__timeFilter("

expend_macros(target, options) ==
    [i \in 1..Len(target.rawSql) |->
        IF target.rawSql[i] = "$__timeFilter(ts)"
        THEN "ts BETWEEN TIMESTAMP_MILLIS(" \o options.range.from
             \o ") AND TIMESTAMP_MILLIS(" \o options.range.to \o ")"
        ELSE target.rawSql[i]]

\* ----------------------------------------------------- executor outcomes
NoResp == [status |-> 0, statusText |-> "", hasProject |-> FALSE, defaultProject |-> ""]

\* What backendSrv.datasourceRequest may resolve with.
Responses ==
    { [status |-> 200, statusText |-> "OK", hasProject |-> TRUE, defaultProject |-> "p1"],
      [status |-> 204, statusText |-> "", hasProject |-> FALSE, defaultProject |-> ""] }

NoError == [kind |-> "none", statusText |-> "", dataError |-> "none", code |-> "", message |-> "", text |-> ""]

HttpError(statusText, dataError) ==
    [kind |-> "http", statusText |-> statusText, dataError |-> dataError,
     code |-> IF dataError = "none" THEN "" ELSE "403",
     message |-> IF dataError = "none" THEN "" ELSE "denied", text |-> ""]

\* What backendSrv.datasourceRequest may reject with (TransportError): a body
\* whose error is JSON text, a body whose error is an object.
TransportErrors == {HttpError("", "json"), HttpError("Bad Request", "object")}

StringError(text) == [NoError EXCEPT !.kind = "string", !.text = text]
MessageError(text) == [NoError EXCEPT !.kind = "object", !.message = text]
TypeError == [NoError EXCEPT !.kind = "TypeError"]
MacroSyntaxError == [NoError EXCEPT !.kind = "MacroSyntaxError"]

\* ---------------------------------------------------------------- requests
NoBody ==
    [kind |-> "none", sql |-> <<>>, useLegacySql |-> FALSE, refId |-> "", type |-> "",
     format |-> "", datasourceId |-> 0, from |-> "", to |-> ""]

TsdbBody(refId, type, sql, format, id, from, to) ==
    [kind |-> "tsdb", sql |-> sql, useLegacySql |-> FALSE, refId |-> refId, type |-> type,
     format |-> format, datasourceId |-> id, from |-> from, to |-> to]

\* ------------------------------------------------------------------- state
VARIABLES
    settings,     \* instanceSettings handed to the constructor
    ds,           \* the fields of the BigQueryDatasource instance
    templateVar,  \* the variable v of the host templating service
    calls,        \* per lane, the call of the datasource that is outstanding
    ivIn,         \* interpolateVariable alone: its arguments
    ivOut         \* interpolateVariable alone: what it returned

vars == <<settings, ds, templateVar, calls, ivIn, ivOut>>

\* One data call (query, listing, variable and annotation queries, the request
\* wrappers) and one configuration call (getDefaultProject, testDatasource) may
\* be outstanding at once; the continuation of a configuration call is the
\* only code that writes a field of the instance after an await.
Lanes == {"data", "config"}

NoTarget == [refId |-> "", rawSql |-> <<>>, format |-> "", hide |-> FALSE]

\* new BigQueryQuery(target, templateSrv, scopedVars)
BigQueryQuery(target) == [target |-> target]

SettingsSet ==
    [name : {"bq"}, id : {7}, url : {"/api/datasources/proxy/7"},
     timeInterval : {""}, authenticationType : {"", "gce"}, defaultProject : {"", "p0"}]

constructor(instanceSettings) ==
    [name |-> instanceSettings.name,
     id |-> instanceSettings.id,
     jsonData |-> [f \in {"timeInterval", "authenticationType", "defaultProject"} |-> instanceSettings[f]],
     responseParser |-> "ResponseParser",
     queryModel |-> BigQueryQuery(NoTarget),
     baseUrl |-> "/bigquery/",
     url |-> instanceSettings.url,
     interval |-> IF instanceSettings.timeInterval = "" THEN "1m" ELSE instanceSettings.timeInterval,
     authenticationType |->
        IF instanceSettings.authenticationType = "" THEN "jwt" ELSE instanceSettings.authenticationType,
     projectName |-> instanceSettings.defaultProject]

NoValue == [tag |-> "none", parser |-> "", resp |-> NoResp, status |-> "", message |-> "", project |-> ""]

Idle ==
    [op |-> "idle", pc |-> "idle", targets |-> <<>>, queries |-> <<>>, url |-> "", query |-> <<>>,
     via |-> "", maxRetries |-> 0, left |-> 0, reqs |-> <<>>, errs |-> <<>>, steps |-> <<>>,
     executed |-> <<>>, outcome |-> "none", value |-> NoValue, error |-> NoError,
     project |-> "", resolved |-> FALSE, resp |-> NoResp]

\* The request doRequest hands to the executor.
GetRequest(url) == [url |-> ds.url \o url, method |-> "GET", body |-> NoBody]

\* The request doQueryRequest hands to the executor.
QueryRequest(url, query) ==
    [url |-> ds.url \o url, method |-> "POST",
     body |-> [NoBody EXCEPT !.kind = "query", !.sql = query]]

\* The request of the host's generic query proxy.
TsdbRequest(body) == [url |-> "/api/tsdb/query", method |-> "POST", body |-> body]

WrappedRequest(c) == IF c.via = "doRequest" THEN GetRequest(c.url) ELSE QueryRequest(c.url, c.query)

\* the catch handlers of doRequest and doQueryRequest: retry while maxRetries > 0
RetryAllowed_always(maxRetries) == maxRetries >= 0

RetryAllowed_never(maxRetries) == FALSE

RetryAllowed(maxRetries) == maxRetries > 0

\* A call that entered doRequest(url, maxRetries) / doQueryRequest(url, query, maxRetries):
\* the executor has been invoked once.
Wrapped(c, via, url, query, maxRetries) ==
    LET d == [c EXCEPT !.via = via, !.url = url, !.query = query,
                       !.maxRetries = maxRetries, !.left = maxRetries]
    IN [d EXCEPT !.reqs = Append(c.reqs, WrappedRequest(d))]

Parsed(parser, resp) == [NoValue EXCEPT !.tag = "parsed", !.parser = parser, !.resp = resp]

\* interpolateVariable has not been applied on its own.
IvIdle == [value |-> NullV, variable |-> [multi |-> FALSE, includeAll |-> FALSE]]

Init ==
    /\ settings \in SettingsSet
    /\ ds = constructor(settings)
    /\ templateVar \in TemplateVars
    /\ calls = [l \in Lanes |-> Idle]
    /\ ivIn = IvIdle
    /\ ivOut = NullV

\* ------------------------------------------------------------------- query
Visible_all(targets) == targets

\* _.filter(options.targets, target => target.hide !== true)
Visible(targets) == SelectSeq(targets, LAMBDA t : t.hide # TRUE)

QuerySteps_macroFirst(shown, last) ==
    <<<<"expend_macros", last.refId>>>> \o [i \in 1..Len(shown) |-> <<"render", shown[i].refId>>]

\* The order in which query() calls the query models of a batch that is not
\* empty: render(interpolateVariable) per target inside the map, then
\* expend_macros(options) on this.queryModel, the model of the last target.
QuerySteps(shown, last) ==
    [i \in 1..Len(shown) |-> <<"render", shown[i].refId>>] \o <<<<"expend_macros", last.refId>>>>

query(choice, options) ==
    LET targets == MakeTargets(choice)
        shown == Visible(targets)
        queries == [i \in 1..Len(shown) |->
                       [refId |-> shown[i].refId, intervalMs |-> options.intervalMs,
                        maxDataPoints |-> options.maxDataPoints, datasourceId |-> ds.id,
                        rawSql |-> render(shown[i], templateVar), format |-> shown[i].format]]
        model == IF shown = <<>> THEN ds.queryModel ELSE BigQueryQuery(shown[Len(shown)])
        c == [Idle EXCEPT !.op = "query", !.targets = targets, !.queries = queries]
        path == "v2/projects/" \o ds.projectName \o "/queries"
    IN /\ calls["data"].op = "idle"
       /\ ds' = [ds EXCEPT !.queryModel = model]
       /\ calls' = [calls EXCEPT !["data"] =
            IF Len(queries) = 0
            THEN [c EXCEPT !.pc = "done", !.outcome = "fulfilled",
                           !.value = [NoValue EXCEPT !.tag = "data-empty"]]
            ELSE IF MacroMalformed(model.target.rawSql)
            THEN [c EXCEPT !.pc = "done", !.outcome = "thrown", !.error = MacroSyntaxError,
                           !.steps = QuerySteps(shown, model.target)]
            ELSE Wrapped([c EXCEPT !.pc = "wait", !.steps = QuerySteps(shown, model.target),
                                   !.executed = <<model.target.refId>>],
                         "doQueryRequest", ds.baseUrl \o path,
                         expend_macros(model.target, options), DefaultMaxRetries)]
       /\ UNCHANGED <<settings, templateVar, ivIn, ivOut>>

Query == \E choice \in TargetLists : query(choice, Options)

\* ------------------------------------------------ listings, request wrappers
Projects == {"p0", "p1"}

ListingPaths ==
    {<<"getProjects", "parseProjects", "v2/projects">>,
     <<"getTables", "parseTabels", "v2/projects/p1/datasets/d/tables">>,
     <<"getTableFields", "parseTabelFields", "v2/projects/p1/datasets/d/tables/t">>}
    \cup {<<"getDatasets", "parseDatasets", "v2/projects/" \o p \o "/datasets">> : p \in Projects}

ParserOf(op) ==
    CASE op = "query" -> "parseDataQuery"
      [] op = "metricFindQuery" -> "parseMetricFindQueryResult"
      [] op = "annotationQuery" -> "transformAnnotationResponse"
      [] \E e \in ListingPaths : e[1] = op -> (CHOOSE e \in ListingPaths : e[1] = op)[2]
      [] OTHER -> ""

\* getProjects, getDatasets, getTables, getTableFields
Listing ==
    \E e \in ListingPaths :
        /\ calls["data"].op = "idle"
        /\ calls' = [calls EXCEPT !["data"] =
              Wrapped([Idle EXCEPT !.op = e[1], !.pc = "wait"],
                      "doRequest", ds.baseUrl \o e[3], <<>>, DefaultMaxRetries)]
        /\ UNCHANGED <<settings, ds, templateVar, ivIn, ivOut>>

\* doRequest(url, maxRetries) called on its own
DoRequest ==
    \E maxRetries \in 0..MaxRetriesArg :
        /\ calls["data"].op = "idle"
        /\ calls' = [calls EXCEPT !["data"] =
              Wrapped([Idle EXCEPT !.op = "doRequest", !.pc = "wait"],
                      "doRequest", "/bigquery/v2/projects", <<>>, maxRetries)]
        /\ UNCHANGED <<settings, ds, templateVar, ivIn, ivOut>>

\* doQueryRequest(url, query, maxRetries) called on its own
DoQueryRequest ==
    \E maxRetries \in 0..MaxRetriesArg :
        /\ calls["data"].op = "idle"
        /\ calls' = [calls EXCEPT !["data"] =
              Wrapped([Idle EXCEPT !.op = "doQueryRequest", !.pc = "wait"],
                      "doQueryRequest", "/bigquery/v2/projects/p1/queries", <<"SELECT 1">>, maxRetries)]
        /\ UNCHANGED <<settings, ds, templateVar, ivIn, ivOut>>

\* ------------------------------------------- variable and annotation queries
metricFindQuery(sql, variableName) ==
    LET refId == IF variableName # "" THEN variableName ELSE "tempvar"
        body == TsdbBody(refId, "", Replace(sql, templateVar), "table", ds.id,
                         Options.range.from, Options.range.to)
    IN /\ calls["data"].op = "idle"
       /\ calls' = [calls EXCEPT !["data"] =
             [Idle EXCEPT !.op = "metricFindQuery", !.pc = "wait", !.via = "direct",
                          !.reqs = <<TsdbRequest(body)>>]]
       /\ UNCHANGED <<settings, ds, templateVar, ivIn, ivOut>>

MetricFindQuery == \E sql \in {SqlMacro}, name \in {"", "region"} : metricFindQuery(sql, name)

annotationQuery(rawQuery, options) ==
    LET body == TsdbBody("deploys", "", Replace(rawQuery, templateVar), "table", ds.id,
                         options.range.from, options.range.to)
    IN /\ calls["data"].op = "idle"
       /\ calls' = [calls EXCEPT !["data"] =
             IF rawQuery = <<>>
             THEN [Idle EXCEPT !.op = "annotationQuery", !.pc = "done", !.outcome = "rejected",
                               !.error = MessageError("Query missing in annotation definition")]
             ELSE [Idle EXCEPT !.op = "annotationQuery", !.pc = "wait", !.via = "direct",
                               !.reqs = <<TsdbRequest(body)>>]]
       /\ UNCHANGED <<settings, ds, templateVar, ivIn, ivOut>>

AnnotationQuery == \E rawQuery \in {<<>>, SqlMacro} : annotationQuery(rawQuery, Options)

\* ------------------------------------------------ the executor settles a request
DataOps ==
    {"query", "metricFindQuery", "annotationQuery", "doRequest", "doQueryRequest"}
    \cup {e[1] : e \in ListingPaths}

\* The executor resolves: the .then handler of the operation runs.
Fulfil ==
    \E resp \in Responses :
        LET c == calls["data"]
        IN /\ c.pc = "wait"
           /\ calls' = [calls EXCEPT !["data"] =
                 [c EXCEPT !.pc = "done", !.outcome = "fulfilled", !.resp = resp,
                           !.value = IF c.op \in {"doRequest", "doQueryRequest"}
                                     THEN [NoValue EXCEPT !.tag = "response", !.resp = resp]
                                     ELSE Parsed(ParserOf(c.op), resp)]]
           /\ UNCHANGED <<settings, ds, templateVar, ivIn, ivOut>>

\* The executor rejects inside doRequest/doQueryRequest with retries left: the
\* catch handler calls the wrapper again with maxRetries - 1.
Retry(l) ==
    \E err \in TransportErrors :
        LET c == calls[l]
        IN /\ c.pc \in {"wait", "td_datasets"}
           /\ c.via \in {"doRequest", "doQueryRequest"}
           /\ RetryAllowed(c.left)
           /\ calls' = [calls EXCEPT ![l] =
                 [c EXCEPT !.left = c.left - 1, !.errs = Append(c.errs, err),
                           !.reqs = Append(c.reqs, WrappedRequest(c))]]
           /\ UNCHANGED <<settings, ds, templateVar, ivIn, ivOut>>

\* The executor rejects and nothing catches it: the error reaches the caller.
Fail ==
    \E err \in TransportErrors :
        LET c == calls["data"]
        IN /\ c.pc = "wait"
           /\ c.via = "direct" \/ ~RetryAllowed(c.left)
           /\ calls' = [calls EXCEPT !["data"] =
                 [c EXCEPT !.pc = "done", !.outcome = "rejected", !.error = err,
                           !.errs = Append(c.errs, err)]]
           /\ UNCHANGED <<settings, ds, templateVar, ivIn, ivOut>>

\* The caller has taken the result of a finished call.
Return ==
    \E l \in Lanes :
        /\ calls[l].pc = "done"
        /\ calls' = [calls EXCEPT ![l] = Idle]
        /\ UNCHANGED <<settings, ds, templateVar, ivIn, ivOut>>

\* ------------------------------------------------------- getDefaultProject
DefaultErrorMessage == "Cannot connect to BigQuery API"

\* static formatBigqueryError(error)
formatBigqueryError(error) ==
    "BigQuery: "
    \o (IF error.statusText # "" THEN error.statusText \o ": " ELSE "")
    \o (CASE error.dataError = "json" -> error.code \o ". " \o error.message
          [] error.dataError = "object" -> "[object Object]"
          [] OTHER -> DefaultErrorMessage)

EnsureDefaultProjectRequest ==
    TsdbRequest(TsdbBody("ensureDefaultProjectQuery", "ensureDefaultProjectQuery", <<>>, "", ds.id, "", ""))

\* this.authenticationType === 'gce' || !this.projectName
NeedsProject == ds.authenticationType = "gce" \/ ds.projectName = ""

\* getDefaultProject() up to its await, or to its return
GetDefaultProject ==
    /\ calls["config"].op = "idle"
    /\ calls' = [calls EXCEPT !["config"] =
          IF NeedsProject
          THEN [Idle EXCEPT !.op = "getDefaultProject", !.pc = "wait", !.via = "direct",
                            !.reqs = <<EnsureDefaultProjectRequest>>]
          ELSE [Idle EXCEPT !.op = "getDefaultProject", !.pc = "done", !.outcome = "fulfilled",
                            !.resolved = TRUE, !.project = ds.projectName,
                            !.value = [NoValue EXCEPT !.tag = "project", !.project = ds.projectName]]]
    /\ UNCHANGED <<settings, ds, templateVar, ivIn, ivOut>>

\* getDefaultProject() after its await: the project of the response is kept in
\* this.projectName; a response without one is a TypeError, caught and formatted.
GdpResolve ==
    \E resp \in Responses :
        LET c == calls["config"]
        IN /\ c.op = "getDefaultProject" /\ c.pc = "wait"
           /\ ds' = IF resp.hasProject THEN [ds EXCEPT !.projectName = resp.defaultProject] ELSE ds
           /\ calls' = [calls EXCEPT !["config"] =
                 IF resp.hasProject
                 THEN [c EXCEPT !.pc = "done", !.outcome = "fulfilled", !.resolved = TRUE,
                                !.project = resp.defaultProject,
                                !.value = [NoValue EXCEPT !.tag = "project", !.project = resp.defaultProject]]
                 ELSE [c EXCEPT !.pc = "done", !.outcome = "rejected",
                                !.error = StringError(formatBigqueryError(TypeError))]]
           /\ UNCHANGED <<settings, templateVar, ivIn, ivOut>>

GdpReject ==
    \E err \in TransportErrors :
        LET c == calls["config"]
        IN /\ c.op = "getDefaultProject" /\ c.pc = "wait"
           /\ calls' = [calls EXCEPT !["config"] =
                 [c EXCEPT !.pc = "done", !.outcome = "rejected", !.errs = Append(c.errs, err),
                           !.error = StringError(formatBigqueryError(err))]]
           /\ UNCHANGED <<settings, ds, templateVar, ivIn, ivOut>>

\* ----------------------------------------------------------- testDatasource
TestResult(status, message) == [NoValue EXCEPT !.tag = "test", !.status = status, !.message = message]

ResponseStatus_ok(resp) == IF resp.status >= 200 THEN "success" ELSE "error"

\* response.status === 200
ResponseStatus(resp) == IF resp.status = 200 THEN "success" ELSE "error"

\* the catch block of testDatasource
CaughtMessage(error) ==
    IF error.kind = "string" THEN error.text
    ELSE "BigQuery: "
         \o (IF error.statusText # "" THEN error.statusText ELSE DefaultErrorMessage)
         \o (IF error.dataError = "object" THEN ": " \o error.code \o ". " \o error.message ELSE "")

\* testDatasource() up to the await inside getDefaultProject, or to its own await
TestDatasource ==
    /\ calls["config"].op = "idle"
    /\ calls' = [calls EXCEPT !["config"] =
          IF NeedsProject
          THEN [Idle EXCEPT !.op = "testDatasource", !.pc = "td_project", !.via = "direct",
                            !.reqs = <<EnsureDefaultProjectRequest>>]
          ELSE [Idle EXCEPT !.op = "testDatasource", !.pc = "td_resume", !.resolved = TRUE,
                            !.project = ds.projectName]]
    /\ UNCHANGED <<settings, ds, templateVar, ivIn, ivOut>>

TdProjectResolve ==
    \E resp \in Responses :
        LET c == calls["config"]
        IN /\ c.pc = "td_project"
           /\ ds' = IF resp.hasProject THEN [ds EXCEPT !.projectName = resp.defaultProject] ELSE ds
           /\ calls' = [calls EXCEPT !["config"] =
                 IF resp.hasProject
                 THEN [c EXCEPT !.pc = "td_resume", !.resolved = TRUE, !.project = resp.defaultProject]
                 ELSE [c EXCEPT !.pc = "done", !.outcome = "fulfilled",
                                !.error = StringError(formatBigqueryError(TypeError)),
                                !.value = TestResult("error",
                                    CaughtMessage(StringError(formatBigqueryError(TypeError))))]]
           /\ UNCHANGED <<settings, templateVar, ivIn, ivOut>>

TdProjectReject ==
    \E err \in TransportErrors :
        LET c == calls["config"]
        IN /\ c.pc = "td_project"
           /\ calls' = [calls EXCEPT !["config"] =
                 [c EXCEPT !.pc = "done", !.outcome = "fulfilled", !.errs = Append(c.errs, err),
                           !.error = StringError(formatBigqueryError(err)),
                           !.value = TestResult("error",
                               CaughtMessage(StringError(formatBigqueryError(err))))]]
           /\ UNCHANGED <<settings, ds, templateVar, ivIn, ivOut>>

\* testDatasource() after `await this.getDefaultProject()`: the dataset list is requested.
TdResume ==
    LET c == calls["config"]
    IN /\ c.pc = "td_resume"
       /\ calls' = [calls EXCEPT !["config"] =
             Wrapped([c EXCEPT !.pc = "td_datasets"], "doRequest",
                     ds.baseUrl \o "v2/projects/" \o c.project \o "/datasets", <<>>, DefaultMaxRetries)]
       /\ UNCHANGED <<settings, ds, templateVar, ivIn, ivOut>>

TdDatasetsResolve ==
    \E resp \in Responses :
        LET c == calls["config"]
        IN /\ c.pc = "td_datasets"
           /\ calls' = [calls EXCEPT !["config"] =
                 [c EXCEPT !.pc = "done", !.outcome = "fulfilled", !.resp = resp,
                           !.value = TestResult(ResponseStatus(resp),
                               IF ResponseStatus(resp) = "success"
                               THEN "Successfully queried the BigQuery API."
                               ELSE IF resp.statusText # "" THEN resp.statusText
                               ELSE DefaultErrorMessage)]]
           /\ UNCHANGED <<settings, ds, templateVar, ivIn, ivOut>>

TdDatasetsReject ==
    \E err \in TransportErrors :
        LET c == calls["config"]
        IN /\ c.pc = "td_datasets"
           /\ ~RetryAllowed(c.left)
           /\ calls' = [calls EXCEPT !["config"] =
                 [c EXCEPT !.pc = "done", !.outcome = "fulfilled", !.errs = Append(c.errs, err),
                           !.error = err, !.value = TestResult("error", CaughtMessage(err))]]
           /\ UNCHANGED <<settings, ds, templateVar, ivIn, ivOut>>

\* ------------------------------------------------------------ specification
Next ==
    \/ Query
    \/ Listing
    \/ DoRequest
    \/ DoQueryRequest
    \/ MetricFindQuery
    \/ AnnotationQuery
    \/ Fulfil
    \/ \E l \in Lanes : Retry(l)
    \/ Fail
    \/ Return
    \/ GetDefaultProject
    \/ GdpResolve
    \/ GdpReject
    \/ TestDatasource
    \/ TdProjectResolve
    \/ TdProjectReject
    \/ TdResume
    \/ TdDatasetsResolve
    \/ TdDatasetsReject

Spec == Init /\ [][Next]_vars

\* The executor settles every request it was handed.
DataSettles == Fulfil \/ Fail \/ Retry("data")

ConfigSettles ==
    \/ GdpResolve \/ GdpReject \/ TdProjectResolve \/ TdProjectReject
    \/ TdResume \/ TdDatasetsResolve \/ TdDatasetsReject \/ Retry("config")

FairSpec == Init /\ [][Next]_vars /\ WF_vars(DataSettles) /\ WF_vars(ConfigSettles)

\* ------------------------------------- interpolateVariable on its own inputs
IvInit ==
    /\ settings \in SettingsSet
    /\ ds = constructor(settings)
    /\ templateVar \in {tv \in TemplateVars : ~tv.present}
    /\ calls = [l \in Lanes |-> Idle]
    /\ ivIn \in [value : Values, variable : Variables]
    /\ ivOut = NullV

IvApply ==
    /\ ivOut = NullV
    /\ ivOut' = interpolateVariable(ivIn.value, ivIn.variable)
    /\ UNCHANGED <<settings, ds, templateVar, calls, ivIn>>

IvNext == IvApply

IvSpec == IvInit /\ [][IvNext]_vars

\* --------------------------------------------------------------- properties
DataCall == calls["data"]
ConfigCall == calls["config"]

ShownRefIds(c) == {c.targets[i].refId : i \in {j \in DOMAIN c.targets : c.targets[j].hide # TRUE}}
Range(q) == {q[i] : i \in DOMAIN q}
ListingOps == {e[1] : e \in ListingPaths}

\* C1: a query() whose targets are all hidden (or absent) is fulfilled at once
\* with {data: []} and hands nothing to the executor, whatever calls preceded it.
C1_EmptyBatchShortCircuits ==
    (DataCall.op = "query" /\ ShownRefIds(DataCall) = {})
        => /\ DataCall.pc = "done"
           /\ DataCall.outcome = "fulfilled"
           /\ DataCall.value.tag = "data-empty"
           /\ DataCall.reqs = <<>>

C1_Witness ==
    /\ DataCall.op = "query"
    /\ Len(DataCall.targets) = MaxTargets
    /\ ShownRefIds(DataCall) = {}
    /\ DataCall.outcome = "fulfilled"
    /\ ds.queryModel # BigQueryQuery(NoTarget)
    /\ ds.projectName = "p1"

\* C2: the targets whose SQL query() hands to the executor are exactly the
\* targets that are not hidden.
C2_EveryShownTargetExecuted ==
    (DataCall.op = "query" /\ DataCall.outcome # "thrown")
        => Range(DataCall.executed) = ShownRefIds(DataCall)

\* C3 as stated: no render (interpolation) step of a target precedes the
\* expend_macros step of the same target.
C3_MacroBeforeInterpolation ==
    \A j \in DOMAIN DataCall.steps :
        DataCall.steps[j][1] = "render"
            => \E k \in 1..(j - 1) : DataCall.steps[k] = <<"expend_macros", DataCall.steps[j][2]>>

\* C3 amended: query() interpolates first.  The render steps come first, one per
\* target that is not hidden, in batch order; expend_macros runs once, after all
\* of them, on the last such target.
C3_InterpolationBeforeMacro ==
    LET c == DataCall
        shown == SelectSeq(c.targets, LAMBDA t : t.hide # TRUE)
        n == Len(shown)
    IN (c.op = "query" /\ n > 0)
        => /\ Len(c.steps) = n + 1
           /\ \A i \in 1..n : c.steps[i] = <<"render", shown[i].refId>>
           /\ c.steps[n + 1] = <<"expend_macros", shown[n].refId>>

C3_Witness ==
    /\ DataCall.op = "query"
    /\ DataCall.pc = "wait"
    /\ Cardinality(ShownRefIds(DataCall)) = MaxTargets
    /\ Len(DataCall.steps) = MaxTargets + 1

\* C4: interpolateVariable on a string returns it unchanged when the variable is
\* neither multi nor includeAll and quoteLiteral of it otherwise; a number is
\* returned as the number for every setting of the flags.
C4_ScalarInterpolation ==
    ivOut # NullV =>
        /\ ivIn.value.t = "string" =>
              IF ivIn.variable.multi \/ ivIn.variable.includeAll
              THEN ivOut = StrV(quoteLiteral(ivIn.value))
              ELSE ivOut = ivIn.value
        /\ ivIn.value.t = "number" => ivOut = ivIn.value

C4_Witness ==
    /\ ivIn.value = StrV(<<"a", "'">>)
    /\ ivIn.variable.includeAll /\ ~ivIn.variable.multi
    /\ ivOut = StrV(<<"'", "a", "'", "'", "'">>)

\* the elements of a list, quoted one by one from the left, a comma between two
RECURSIVE QuotedFromLeft(_)
QuotedFromLeft(v) ==
    IF Len(v) = 0 THEN <<>>
    ELSE IF Len(v) = 1 THEN quoteLiteral(v[1])
    ELSE QuotedFromLeft(SubSeq(v, 1, Len(v) - 1)) \o <<",">> \o quoteLiteral(v[Len(v)])

C6_NoRetry ==
    (DataCall.op \in {"query"} \cup ListingOps /\ DataCall.outcome = "rejected")
        => /\ DataCall.error = DataCall.errs[Len(DataCall.errs)]
           /\ Len(DataCall.reqs) = 1

\* C6 amended: the call is rejected only after the executor failed twice on the
\* same request (one retry, the default maxRetries), with the second error.
C6_OneRetryThenPassThrough ==
    (DataCall.op \in {"query"} \cup ListingOps /\ DataCall.outcome = "rejected")
        => /\ DataCall.error = DataCall.errs[Len(DataCall.errs)]
           /\ Len(DataCall.errs) = 2
           /\ Len(DataCall.reqs) = 2
           /\ DataCall.reqs[2] = DataCall.reqs[1]

C6_Witness ==
    /\ DataCall.op = "query"
    /\ DataCall.outcome = "rejected"
    /\ DataCall.errs[1] # DataCall.errs[2]
    /\ DataCall.error = DataCall.errs[2]

\* C7 as stated: every field of the instance keeps its value of construction.
C7_NoFieldChanges == ds = constructor(settings)

\* C7 amended: every field but queryModel and projectName keeps its value of
\* construction; queryModel is the constructor's model or the model of a target
\* that was not hidden, projectName the configured project or one the
\* ensureDefaultProjectQuery answered.
C7_OnlyModelAndProjectChange ==
    /\ \A f \in DOMAIN ds \ {"queryModel", "projectName"} : ds[f] = constructor(settings)[f]
    /\ \/ ds.queryModel = BigQueryQuery(NoTarget)
       \/ /\ ds.queryModel.target.hide = FALSE
          /\ ds.queryModel.target.rawSql \in SqlSet
    /\ ds.projectName \in
          {settings.defaultProject} \cup {r.defaultProject : r \in {x \in Responses : x.hasProject}}

C7_Witness ==
    /\ ds.queryModel # BigQueryQuery(NoTarget)
    /\ ds.projectName # settings.defaultProject
    /\ DataCall.op = "query"
    /\ \E i \in DOMAIN DataCall.targets : DataCall.targets[i].hide

\* C8: a malformed macro call in any target that is not hidden makes query()
\* fail with MacroSyntaxError and nothing is handed to the executor.
C8_MalformedMacroFails ==
    (DataCall.op = "query"
     /\ \E i \in DOMAIN DataCall.targets :
            DataCall.targets[i].hide # TRUE /\ MacroMalformed(DataCall.targets[i].rawSql))
        => /\ DataCall.outcome = "thrown"
           /\ DataCall.error = MacroSyntaxError
           /\ DataCall.reqs = <<>>

InWrapper == DataCall.via \in {"doRequest", "doQueryRequest"}

C9_Attempts ==
    LET c == DataCall
    IN InWrapper
        => /\ Len(c.reqs) <= c.maxRetries + 1
           /\ c.maxRetries = DefaultMaxRetries => Len(c.reqs) <= 2
           /\ \A i \in DOMAIN c.reqs :
                 /\ c.reqs[i].url = ds.url \o c.url
                 /\ c.reqs[i].body.sql = c.query
                 /\ c.reqs[i] = c.reqs[1]
           /\ c.pc = "wait" => Len(c.reqs) = Len(c.errs) + 1
           /\ c.outcome = "fulfilled"
                 => /\ Len(c.reqs) = Len(c.errs) + 1
                    /\ c.value.resp = c.resp
                    /\ c.resp \in Responses
           /\ c.outcome = "rejected"
                 => /\ Len(c.errs) = c.maxRetries + 1
                    /\ Len(c.reqs) = Len(c.errs)
                    /\ c.error = c.errs[Len(c.errs)]

\* C9: doRequest and doQueryRequest terminate; the executor is invoked at most
\* maxRetries + 1 times (2 by default), again only after a failure and with the
\* same url and query; the first response is returned with no further attempt,
\* and after maxRetries + 1 failures the last error is thrown as it is.
C9_BoundedRetry ==
    /\ []C9_Attempts
    /\ (InWrapper /\ DataCall.pc = "wait") ~> (DataCall.pc = "done")

C9_Witness ==
    /\ DataCall.op = "doQueryRequest"
    /\ DataCall.maxRetries = MaxRetriesArg
    /\ DataCall.outcome = "rejected"
    /\ Len(DataCall.reqs) = MaxRetriesArg + 1
    /\ DataCall.errs[1] # DataCall.error

\* C10: testDatasource() never rejects; it resolves to a status of 'success' or
\* 'error', 'success' exactly when getDefaultProject() resolved and the dataset
\* list answered with status 200.
C10_TestNeverRejects ==
    LET c == ConfigCall
    IN c.op = "testDatasource"
        => /\ c.outcome \in {"none", "fulfilled"}
           /\ c.pc = "done"
                 => /\ c.outcome = "fulfilled"
                    /\ c.value.tag = "test"
                    /\ c.value.status \in {"success", "error"}
                    /\ c.value.status = "success" <=> (c.resolved /\ c.resp.status = 200)

C10_Witness ==
    /\ ConfigCall.op = "testDatasource"
    /\ ConfigCall.pc = "done"
    /\ ConfigCall.value.status = "success"
    /\ Len(ConfigCall.reqs) = 3
    /\ Len(ConfigCall.errs) = 1

====
